---- MODULE Spec2Model ----
(***************************************************************************)
(* A model of cronx: ParseSpec and the Schedule bit masks, the forward     *)
(* search Schedule.NextFrom with its helper nextAllowed, and the runtime   *)
(* Cron (its run goroutine, Stop, and the channel C).                     *)
(*                                                                         *)
(* A time.Time value is the record of its date and clock reading in the    *)
(* Cron's location: [year, month, day, hour, minute, second, nsec].  The   *)
(* location is UTC (no daylight saving transitions), so calendar           *)
(* arithmetic is the proleptic Gregorian calendar that package time        *)
(* implements.  A uint64 mask is the set of the positions of its set bits. *)
(***************************************************************************)
EXTENDS Integers, Sequences, FiniteSets, TLC

VARIABLES
    sched,        \* the Schedule: NextFrom's receiver, the Cron's sched
    withSeconds,  \* the resolution mode: NextFrom's argument, the Cron's field
    \* a call of NextFrom followed step by step
    t,            \* NextFrom's argument t
    ts,           \* NextFrom's local ts, the candidate
    pc,           \* position in NextFrom: "start", "loop", "done"
    result,       \* the instant NextFrom returned
    \* a Cron
    from,         \* c.from, after NewSchedule has normalised it
    buf,          \* c.buf, the capacity of c.c
    chan,         \* the instants buffered in c.c
    now,          \* run's local now
    next,         \* run's local next
    timer,        \* run's timer: "none", "active", "fired" (the instant is in
                  \* timer.C), "expired" (fired and timer.C empty), "stopped"
    rpc,          \* position of run: "start", "select", "send", "spin" (in a
                  \* NextFrom that has not returned), "exited"
    stopped,      \* c.stopped
    closes,       \* how many times close(c.stop) has run
    mu,           \* c.mu: 0 when free, else the caller holding it
    spc,          \* position of each caller in Stop: "idle", "locked",
                  \* "close", "return"
    sret,         \* the value each caller's Stop is about to return
    calls,        \* how many Stop calls have begun
    clock,        \* the wall clock, time.Now()
    cClosed,      \* close(c.c) has run: the delivery channel C is closed
    \* history
    sent,         \* the instants sent on c.c so far, in order
    observed,     \* run has taken the stop branch of its select
    retTrue,      \* how many Stop calls have returned true
    retFalse,     \* how many Stop calls have returned false
    sentAtStop,   \* how many instants had been sent when Stop returned true
    \* a call of one of the package's functions
    call,         \* the function called and its arguments
    ret,          \* what it returned
    returned      \* the call has returned

searchVars == <<t, ts, pc, result>>
cronVars == <<from, buf, chan, now, next, timer, rpc, stopped, closes, mu, spc,
              sret, calls, clock, cClosed, sent, observed, retTrue, retFalse,
              sentAtStop>>
callVars == <<call, ret, returned>>
vars == <<sched, withSeconds, searchVars, cronVars, callVars>>

\* ------------------------------------------------------------- bounds
\* The model's epoch: second 0 is 00:00:00 on 1 January of this year.
BaseYear == 2024
\* NextFrom's loop is followed while the candidate's year is at most
\* BaseYear + MaxYears.
MaxYears == 1
\* The goroutines that call Stop, and the Stop calls they make in all.
NumCallers == 2
MaxStopCalls == 2
\* The instants a Cron sends before the model stops following it.
MaxTicks == 2
\* The largest capacity given to WithBuffered.
MaxBuf == 2
\* The iterations of NextFrom's loop followed within one call made by run.
MaxIterations == 16
\* The largest short literal given to parseField.
MaxLiteral == 61
\* The width of the masks given to nextAllowed.
MaskWidth == 5
\* The Gregorian calendar between 1901 and 2099 repeats every 28 years:
\* the same month lengths on the same weekdays.
CalendarCycle == 4 * 7

\* ------------------------------------------------- package time, in UTC
Second == 1
Minute == 60
Hour == 3600

IsLeap(y) == y % 4 = 0 /\ (y % 100 # 0 \/ y % 400 = 0)

DaysIn(y, m) ==
    IF m = 2 THEN (IF IsLeap(y) THEN 29 ELSE 28)
    ELSE IF m \in {4, 6, 9, 11} THEN 30 ELSE 31

\* A day of the month past the month's end is carried into the months after.
RECURSIVE NormDays(_, _, _, _, _, _)
NormDays(y, m, d, h, mi, s) ==
    IF d > DaysIn(y, m)
    THEN NormDays(IF m = 12 THEN y + 1 ELSE y, IF m = 12 THEN 1 ELSE m + 1,
                  d - DaysIn(y, m), h, mi, s)
    ELSE [year |-> y, month |-> m, day |-> d, hour |-> h, minute |-> mi,
          second |-> s, nsec |-> 0]

\* time.Date(y, m, d, h, mi, s, 0, loc): values past their ranges are
\* normalised (month 13 is January of the next year, 24:00 is 00:00 of the
\* next day, 32 January is 1 February).
Date(y, m, d, h, mi, s) ==
    LET mi2 == mi + (s \div 60)
        h2 == h + (mi2 \div 60)
    IN NormDays(y + ((m - 1) \div 12), ((m - 1) % 12) + 1, d + (h2 \div 24),
                h2 % 24, mi2 % 60, s % 60)

\* Time.Add(d), d a whole number of seconds
Add(tm, d) ==
    [Date(tm.year, tm.month, tm.day, tm.hour, tm.minute, tm.second + d)
        EXCEPT !.nsec = tm.nsec]

\* Time.AddDate(0, 0, days)
AddDate(tm, days) ==
    [Date(tm.year, tm.month, tm.day + days, tm.hour, tm.minute, tm.second)
        EXCEPT !.nsec = tm.nsec]

\* Time.Truncate(d), d = time.Second or time.Minute
Truncate(tm, d) ==
    [tm EXCEPT !.second = IF d = Minute THEN 0 ELSE tm.second, !.nsec = 0]

LeapsBefore(y) == ((y - 1) \div 4) - ((y - 1) \div 100) + ((y - 1) \div 400)

\* Days from 1970-01-01 to the date.
AbsDays(y, m, d) ==
    365 * (y - 1970) + LeapsBefore(y) - LeapsBefore(1970)
        + <<0, 31, 59, 90, 120, 151, 181, 212, 243, 273, 304, 334>>[m]
        + (IF m > 2 /\ IsLeap(y) THEN 1 ELSE 0)
        + (d - 1)

\* Seconds from 00:00:00 on 1 January of BaseYear to the instant.
SinceBase(tm) ==
    (AbsDays(tm.year, tm.month, tm.day) - AbsDays(BaseYear, 1, 1)) * 24 * Hour
        + tm.hour * Hour + tm.minute * Minute + tm.second

\* Time.After / Time.Before
After(a, b) ==
    \/ SinceBase(a) > SinceBase(b)
    \/ SinceBase(a) = SinceBase(b) /\ a.nsec > b.nsec
Before(a, b) == After(b, a)

\* Time.Weekday(): 1970-01-01 was a Thursday
WeekdayOf(tm) == (AbsDays(tm.year, tm.month, tm.day) + 4) % 7

\* --------------------------------------------------------- bit masks
\* ((mask >> uint(i)) & 1) != 0
Bit(mask, i) == i \in mask

\* mask >> uint(n)
ShiftRight(mask, n) == {i - n : i \in {j \in mask : j >= n}}

\* bits.TrailingZeros64(mask), mask non-zero
TrailingZeros64(mask) == CHOOSE i \in mask : \A j \in mask : i <= j

\* mustMask with one bit more than the domain has values.
mustMask_OneMore(min, max) == 0..(max - min + 1)

\* mustMask(min, max)
mustMask(min, max) == 0..(max - min)

\* nextAllowed that wraps to min instead of to the lowest allowed value.
nextAllowed_WrapToMin(mask, cur, min, max) ==
    LET c == IF cur < min THEN min ELSE cur
        shifted == ShiftRight(mask, c - min)
    IN IF shifted # {}
       THEN [val |-> c + TrailingZeros64(shifted), wrap |-> FALSE]
       ELSE [val |-> min, wrap |-> TRUE]

nextAllowed(mask, cur, min, max) ==
    IF mask = {} THEN [val |-> min, wrap |-> TRUE]
    ELSE LET c == IF cur < min THEN min ELSE cur
             rel == c - min
             shifted == ShiftRight(mask, rel)
         IN IF shifted # {}
            THEN [val |-> c + TrailingZeros64(shifted), wrap |-> FALSE]
            ELSE [val |-> min + TrailingZeros64(mask), wrap |-> TRUE]

\* ------------------------------------------------------------ parsing
\* A string is the sequence of its characters, each a one-character string.

DigitChars == <<"0", "1", "2", "3", "4", "5", "6", "7", "8", "9">>
UpperChars == <<"A", "B", "C", "D", "E", "F", "G", "H", "I", "J", "K", "L", "M",
                "N", "O", "P", "Q", "R", "S", "T", "U", "V", "W", "X", "Y", "Z">>
LowerChars == <<"a", "b", "c", "d", "e", "f", "g", "h", "i", "j", "k", "l", "m",
                "n", "o", "p", "q", "r", "s", "t", "u", "v", "w", "x", "y", "z">>

IsDigit(c) == \E i \in 1..10 : DigitChars[i] = c
DigitVal(c) == (CHOOSE i \in 1..10 : DigitChars[i] = c) - 1
IsSpace(c) == c \in {" ", "\t", "\n", "\r"}

\* strings.ToLower
ToLowerChar(c) ==
    IF \E i \in 1..26 : UpperChars[i] = c
    THEN LowerChars[CHOOSE i \in 1..26 : UpperChars[i] = c]
    ELSE c
ToLower(str) == [i \in 1..Len(str) |-> ToLowerChar(str[i])]

\* str[lo:hi] with Go's zero-based, half-open bounds
Slice(str, lo, hi) == SubSeq(str, lo + 1, hi)

\* strings.IndexByte(str, c): zero-based, -1 when absent
IndexByte(str, c) ==
    IF \E i \in 1..Len(str) : str[i] = c
    THEN (CHOOSE i \in 1..Len(str) : str[i] = c /\ \A j \in 1..(i - 1) : str[j] # c) - 1
    ELSE -1

\* strings.TrimSpace
RECURSIVE TrimLeft(_)
TrimLeft(str) ==
    IF str # <<>> /\ IsSpace(Head(str)) THEN TrimLeft(Tail(str)) ELSE str
RECURSIVE TrimRight(_)
TrimRight(str) ==
    IF str # <<>> /\ IsSpace(str[Len(str)])
    THEN TrimRight(SubSeq(str, 1, Len(str) - 1)) ELSE str
TrimSpace(str) == TrimRight(TrimLeft(str))

\* strings.Fields: the maximal runs of non-space characters
RECURSIVE FieldsFrom(_, _, _)
FieldsFrom(str, i, cur) ==
    IF i > Len(str) THEN (IF cur = <<>> THEN <<>> ELSE <<cur>>)
    ELSE IF IsSpace(str[i])
         THEN (IF cur = <<>> THEN <<>> ELSE <<cur>>) \o FieldsFrom(str, i + 1, <<>>)
         ELSE FieldsFrom(str, i + 1, Append(cur, str[i]))
Fields(str) == FieldsFrom(str, 1, <<>>)

\* strings.Split(str, ",")
RECURSIVE SplitFrom(_, _, _)
SplitFrom(str, i, cur) ==
    IF i > Len(str) THEN <<cur>>
    ELSE IF str[i] = "," THEN <<cur>> \o SplitFrom(str, i + 1, <<>>)
         ELSE SplitFrom(str, i + 1, Append(cur, str[i]))
Split(str) == SplitFrom(str, 1, <<>>)

\* A rewrite of the day-of-week field only when it is "7" alone.
ReplaceAll7_WholeField(str) == IF str = <<"7">> THEN <<"0">> ELSE str

\* strings.ReplaceAll(str, "7", "0")
ReplaceAll7(str) == [i \in 1..Len(str) |-> IF str[i] = "7" THEN "0" ELSE str[i]]

\* The name tables; a nil table is the function with the empty domain.
NoNames == [n \in {} |-> 0]
monNames ==
    (<<"j", "a", "n">> :> 1) @@ (<<"f", "e", "b">> :> 2) @@ (<<"m", "a", "r">> :> 3) @@
    (<<"a", "p", "r">> :> 4) @@ (<<"m", "a", "y">> :> 5) @@ (<<"j", "u", "n">> :> 6) @@
    (<<"j", "u", "l">> :> 7) @@ (<<"a", "u", "g">> :> 8) @@ (<<"s", "e", "p">> :> 9) @@
    (<<"o", "c", "t">> :> 10) @@ (<<"n", "o", "v">> :> 11) @@ (<<"d", "e", "c">> :> 12)
dowNames ==
    (<<"s", "u", "n">> :> 0) @@ (<<"m", "o", "n">> :> 1) @@ (<<"t", "u", "e">> :> 2) @@
    (<<"w", "e", "d">> :> 3) @@ (<<"t", "h", "u">> :> 4) @@ (<<"f", "r", "i">> :> 5) @@
    (<<"s", "a", "t">> :> 6)

\* A Go int (64 bits) is four 16-bit limbs, the least significant first.
Limb == 2 ^ 16
ZeroInt == <<0, 0, 0, 0>>

\* n*10 + d in 64-bit arithmetic: the carry out of the top limb is lost.
MulAdd(n, d) ==
    LET x1 == n[1] * 10 + d
        x2 == n[2] * 10 + (x1 \div Limb)
        x3 == n[3] * 10 + (x2 \div Limb)
        x4 == n[4] * 10 + (x3 \div Limb)
    IN <<x1 % Limb, x2 % Limb, x3 % Limb, x4 % Limb>>

\* The value parseNumber's loop computes for a string of digits:
\* for i := 0; i < len(s); i++ { n = n*10 + int(c-'0') }, from character i
\* (one-based here) on. Each new n is bound as a value before the next
\* character uses it.
RECURSIVE DigitsFrom(_, _, _)
DigitsFrom(str, i, n) ==
    IF i > Len(str) THEN n
    ELSE CHOOSE r \in {DigitsFrom(str, i + 1, m) :
                          m \in {MulAdd(n, DigitVal(str[i]))}} : TRUE

DigitsValue(str) == DigitsFrom(str, 1, ZeroInt)

\* The int as a number: the two's complement value when it lies within
\* -2^16 .. 2^16 - 1; a value further from zero is kept as -2^30 or 2^30,
\* which compares with every field bound and every in-range value as the
\* value itself does.
IntValue(n) ==
    IF n[2] = 0 /\ n[3] = 0 /\ n[4] = 0 THEN n[1]
    ELSE IF n[2] = Limb - 1 /\ n[3] = Limb - 1 /\ n[4] = Limb - 1 THEN n[1] - Limb
    ELSE IF n[4] >= Limb \div 2 THEN -(2 ^ 30)
    ELSE 2 ^ 30

\* parseNumber after s = strings.TrimSpace(s)
numberOf(s, names) ==
    IF ToLower(s) \in DOMAIN names THEN [err |-> FALSE, val |-> names[ToLower(s)]]
    ELSE IF s = <<>> THEN [err |-> TRUE, val |-> 0]
    ELSE IF \E i \in 1..Len(s) : ~IsDigit(s[i]) THEN [err |-> TRUE, val |-> 0]
    ELSE [err |-> FALSE, val |-> IntValue(DigitsValue(s))]

\* In parseNumber and parseField each local of the code is bound as a value
\* (x \in {e}) where the code assigns it.
parseNumber(str, names) ==
    CHOOSE r \in {numberOf(s, names) : s \in {TrimSpace(str)}} : TRUE

\* for v := lo; v <= hi; v += step { m |= 1 << uint(v-min) }
StepBits(lo, hi, step, min) ==
    {v - min : v \in {w \in lo..hi : (w - lo) % step = 0 /\ w - min \in 0..63}}

FieldError == [mask |-> {}, star |-> FALSE, err |-> TRUE]

\* The range and step of one atom: rng and the step st, then the bounds
\* v1, v2, then the checks and the bits.
atomOf(rng, st, min, max, names) ==
    LET dash == IndexByte(rng, "-")
    IN CHOOSE r \in
         {IF st.err \/ st.val <= 0 THEN FieldError
          ELSE IF v1.err \/ v2.err THEN FieldError
          ELSE IF v1.val < min \/ v2.val > max \/ v1.val > v2.val THEN FieldError
          ELSE [mask |-> StepBits(v1.val, v2.val, st.val, min), star |-> FALSE,
                err |-> FALSE] :
            v1 \in {IF st.err \/ st.val <= 0 THEN st
                    ELSE IF dash >= 0 THEN parseNumber(Slice(rng, 0, dash), names)
                    ELSE parseNumber(rng, names)},
            v2 \in {IF st.err \/ st.val <= 0 THEN st
                    ELSE IF dash >= 0 THEN parseNumber(Slice(rng, dash + 1, Len(rng)), names)
                    ELSE parseNumber(rng, names)}} : TRUE

\* One atom of a comma-separated list: a value or a range, with an optional
\* step.
parseAtom(part, min, max, names) ==
    CHOOSE r \in
      {IF p = <<>> THEN FieldError
       ELSE CHOOSE q \in
              {atomOf(rng, st, min, max, names) :
                 rng \in {IF IndexByte(p, "/") >= 0 THEN Slice(p, 0, IndexByte(p, "/"))
                          ELSE p},
                 st \in {IF IndexByte(p, "/") >= 0
                         THEN parseNumber(Slice(p, IndexByte(p, "/") + 1, Len(p)), names)
                         ELSE [err |-> FALSE, val |-> 1]}} : TRUE :
         p \in {TrimSpace(part)}} : TRUE

\* parseField after the field is trimmed and "?" replaced by "*"
fieldOf(field, min, max, names) ==
    IF field = <<>> THEN FieldError
    ELSE IF field = <<"*">> THEN [mask |-> mustMask(min, max), star |-> TRUE, err |-> FALSE]
    ELSE IF Len(field) >= 2 /\ SubSeq(field, 1, 2) = <<"*", "/">> THEN
         CHOOSE r \in
           {IF step.err \/ step.val <= 0 THEN FieldError
            ELSE [mask |-> StepBits(min, max, step.val, min), star |-> FALSE,
                  err |-> FALSE] :
              step \in {parseNumber(Slice(field, 2, Len(field)), names)}} : TRUE
    ELSE CHOOSE r \in
           {LET atoms == [i \in 1..Len(parts) |-> parseAtom(parts[i], min, max, names)]
            IN IF \E i \in 1..Len(parts) : atoms[i].err THEN FieldError
               ELSE [mask |-> UNION {atoms[i].mask : i \in 1..Len(parts)},
                     star |-> FALSE, err |-> FALSE] :
              parts \in {Split(field)}} : TRUE

parseField(fld, min, max, names) ==
    CHOOSE r \in
      {fieldOf(IF f0 = <<"?">> THEN <<"*">> ELSE f0, min, max, names) :
         f0 \in {TrimSpace(fld)}} : TRUE

\* Schedule{}
ZeroSchedule ==
    [Second |-> {}, Minute |-> {}, Hour |-> {}, Dom |-> {}, Month |-> {}, Dow |-> {},
     domStar |-> FALSE, dowStar |-> FALSE]

\* parseWithSeconds returning the masks parsed so far along with the error.
parseWithSeconds_Partial(f) ==
    LET sec == parseField(f[1], 0, 59, NoNames)
        min == parseField(f[2], 0, 59, NoNames)
        hour == parseField(f[3], 0, 23, NoNames)
        dom == parseField(f[4], 1, 31, NoNames)
        mon == parseField(f[5], 1, 12, monNames)
        dow == parseField(ReplaceAll7(f[6]), 0, 6, dowNames)
    IN [err |-> sec.err \/ min.err \/ hour.err \/ dom.err \/ mon.err \/ dow.err,
        s |-> [Second |-> sec.mask, Minute |-> min.mask, Hour |-> hour.mask,
               Dom |-> dom.mask, Month |-> mon.mask, Dow |-> dow.mask,
               domStar |-> dom.star, dowStar |-> dow.star]]

\* parseWithSeconds(f), f of length 6: "sec min hour dom mon dow"
parseWithSeconds(f) ==
    LET sec == parseField(f[1], 0, 59, NoNames)
        min == parseField(f[2], 0, 59, NoNames)
        hour == parseField(f[3], 0, 23, NoNames)
        dom == parseField(f[4], 1, 31, NoNames)
        mon == parseField(f[5], 1, 12, monNames)
        dow == parseField(ReplaceAll7(f[6]), 0, 6, dowNames)
    IN IF sec.err \/ min.err \/ hour.err \/ dom.err \/ mon.err \/ dow.err
       THEN [err |-> TRUE, s |-> ZeroSchedule]
       ELSE [err |-> FALSE,
             s |-> [Second |-> sec.mask, Minute |-> min.mask, Hour |-> hour.mask,
                    Dom |-> dom.mask, Month |-> mon.mask, Dow |-> dow.mask,
                    domStar |-> dom.star, dowStar |-> dow.star]]

ParseSpec(spec, ws) ==
    LET fields == Fields(spec)
        f6 == IF ws /\ Len(fields) = 5 THEN Append(fields, <<"*">>)
              ELSE IF ~ws /\ Len(fields) = 5 THEN <<(<<"*">>)>> \o fields
              ELSE fields
    IN IF ~ws /\ Len(fields) # 5 THEN [err |-> TRUE, s |-> ZeroSchedule]
       ELSE IF Len(f6) # 6 THEN [err |-> TRUE, s |-> ZeroSchedule]
       ELSE parseWithSeconds(f6)

\* ------------------------------------------------- matching and NextFrom
\* dayMatches with both restricted day fields required at once.
dayMatches_And(s, tm) ==
    LET domOk == Bit(s.Dom, tm.day - 1)
        dowOk == Bit(s.Dow, WeekdayOf(tm))
    IN IF ~s.domStar /\ ~s.dowStar THEN domOk /\ dowOk
       ELSE (s.domStar \/ domOk) /\ (s.dowStar \/ dowOk)

dayMatches(s, tm) ==
    LET domOk == Bit(s.Dom, tm.day - 1)
        dowOk == Bit(s.Dow, WeekdayOf(tm))
    IN IF ~s.domStar /\ ~s.dowStar THEN domOk \/ dowOk
       ELSE IF ~s.domStar /\ ~domOk THEN FALSE
       ELSE IF ~s.dowStar /\ ~dowOk THEN FALSE
       ELSE TRUE

\* The unit added after a carry: time.Second or time.Minute.
Unit(ws) == IF ws THEN Second ELSE Minute

\* The rounding without the step past the reference.
RoundUp_NoAdd(tm, ws) == Truncate(tm, Unit(ws))

\* The initial candidate: t rounded up to the next whole second or minute.
RoundUp(tm, ws) == Add(Truncate(tm, Unit(ws)), Unit(ws))

\* Iterate with the second test made in both modes.
Iterate_SecondAlways(s, ws, c) ==
    LET y == c.year
        m == c.month
        d == c.day
        h == c.hour
        fieldMin == c.minute
        sec == c.second
    IN
    IF ~Bit(s.Month, m - 1) THEN
        LET na == nextAllowed(s.Month, m, 1, 12)
            y2 == IF na.wrap THEN y + 1 ELSE y
        IN [ts |-> Add(Date(y2, na.val, 1, 0, 0, 0), Unit(ws)), ret |-> FALSE]
    ELSE IF ~dayMatches(s, c) THEN
        [ts |-> Add(AddDate(Date(y, m, d, 0, 0, 0), 1), Unit(ws)), ret |-> FALSE]
    ELSE IF ~Bit(s.Hour, h) THEN
        LET na == nextAllowed(s.Hour, h, 0, 23)
            nx == IF na.wrap THEN AddDate(Date(y, m, d, 0, 0, 0), 1)
                  ELSE Date(y, m, d, na.val, 0, 0)
        IN [ts |-> Add(nx, Unit(ws)), ret |-> FALSE]
    ELSE IF ~Bit(s.Minute, fieldMin) THEN
        LET na == nextAllowed(s.Minute, fieldMin, 0, 59)
            nx == IF na.wrap THEN Add(Date(y, m, d, h, 0, 0), Hour)
                  ELSE Date(y, m, d, h, na.val, 0)
        IN IF ws THEN [ts |-> Add(nx, Second), ret |-> FALSE]
           ELSE [ts |-> nx, ret |-> TRUE]
    ELSE IF ~Bit(s.Second, sec) THEN
        LET na == nextAllowed(s.Second, sec, 0, 59)
        IN IF na.wrap
           THEN [ts |-> Add(Date(y, m, d, h, fieldMin, 0), Minute), ret |-> FALSE]
           ELSE [ts |-> Date(y, m, d, h, fieldMin, na.val), ret |-> TRUE]
    ELSE [ts |-> c, ret |-> TRUE]

\* One iteration of NextFrom's for loop on candidate c: the next candidate
\* (ret = FALSE, the iteration ended in continue) or the value returned
\* (ret = TRUE).
Iterate(s, ws, c) ==
    LET y == c.year
        m == c.month
        d == c.day
        h == c.hour
        fieldMin == c.minute
        sec == c.second
    IN
    IF ~Bit(s.Month, m - 1) THEN
        LET na == nextAllowed(s.Month, m, 1, 12)
            y2 == IF na.wrap THEN y + 1 ELSE y
        IN [ts |-> Add(Date(y2, na.val, 1, 0, 0, 0), Unit(ws)), ret |-> FALSE]
    ELSE IF ~dayMatches(s, c) THEN
        [ts |-> Add(AddDate(Date(y, m, d, 0, 0, 0), 1), Unit(ws)), ret |-> FALSE]
    ELSE IF ~Bit(s.Hour, h) THEN
        LET na == nextAllowed(s.Hour, h, 0, 23)
            nx == IF na.wrap THEN AddDate(Date(y, m, d, 0, 0, 0), 1)
                  ELSE Date(y, m, d, na.val, 0, 0)
        IN [ts |-> Add(nx, Unit(ws)), ret |-> FALSE]
    ELSE IF ~Bit(s.Minute, fieldMin) THEN
        LET na == nextAllowed(s.Minute, fieldMin, 0, 59)
            nx == IF na.wrap THEN Add(Date(y, m, d, h, 0, 0), Hour)
                  ELSE Date(y, m, d, h, na.val, 0)
        IN IF ws THEN [ts |-> Add(nx, Second), ret |-> FALSE]
           ELSE [ts |-> nx, ret |-> TRUE]
    ELSE IF ws THEN
        IF ~Bit(s.Second, sec) THEN
            LET na == nextAllowed(s.Second, sec, 0, 59)
            IN IF na.wrap
               THEN [ts |-> Add(Date(y, m, d, h, fieldMin, 0), Minute), ret |-> FALSE]
               ELSE [ts |-> Date(y, m, d, h, fieldMin, na.val), ret |-> TRUE]
        ELSE [ts |-> c, ret |-> TRUE]
    ELSE [ts |-> Date(y, m, d, h, fieldMin, 0), ret |-> TRUE]

\* ------------------------------------------------------------- inputs
\* The cron specs searched, as ParseSpec receives them.
\* "* * * * *"
EveryMinute == <<"*", " ", "*", " ", "*", " ", "*", " ", "*">>
\* "0 12 15 6 *"
NoonJune15 == <<"0", " ", "1", "2", " ", "1", "5", " ", "6", " ", "*">>
\* "5 0 12 15 6 *"
NoonJune15Sec5 == <<"5", " ", "0", " ", "1", "2", " ", "1", "5", " ", "6", " ", "*">>
\* "0 0 * * *"
Midnight == <<"0", " ", "0", " ", "*", " ", "*", " ", "*">>
\* "0 0 1 * *"
MonthStart == <<"0", " ", "0", " ", "1", " ", "*", " ", "*">>
\* "*/15 * * * *"
QuarterHours == <<"*", "/", "1", "5", " ", "*", " ", "*", " ", "*", " ", "*">>
\* "30 9-17 * * 1-5"
OfficeHalfHours == <<"3", "0", " ", "9", "-", "1", "7", " ", "*", " ", "*", " ", "1", "-", "5">>
\* "0 0 15 * mon"
The15thOrMonday == <<"0", " ", "0", " ", "1", "5", " ", "*", " ", "m", "o", "n">>
\* "0 0 31 2 *"
Feb31 == <<"0", " ", "0", " ", "3", "1", " ", "2", " ", "*">>
\* "0 0 29 feb ?"
Feb29 == <<"0", " ", "0", " ", "2", "9", " ", "f", "e", "b", " ", "?">>
\* "0 0 0 * * *"
MidnightSec == <<"0", " ", "0", " ", "0", " ", "*", " ", "*", " ", "*">>
\* "*/20 * * * * *"
Every20Sec == <<"*", "/", "2", "0", " ", "*", " ", "*", " ", "*", " ", "*", " ", "*">>
\* "10,40 30 * * * 7"
SundayHalfHours == <<"1", "0", ",", "4", "0", " ", "3", "0", " ", "*", " ", "*", " ", "*", " ", "7">>
\* "59 59 23 31 12 *"
LastSecondOfYear == <<"5", "9", " ", "5", "9", " ", "2", "3", " ", "3", "1", " ", "1", "2", " ", "*">>
\* "60 * * * *"
Minute60 == <<"6", "0", " ", "*", " ", "*", " ", "*", " ", "*">>
\* "* * * *"
FourFields == <<"*", " ", "*", " ", "*", " ", "*">>

SpecTexts == {
    EveryMinute,
    NoonJune15,
    NoonJune15Sec5,
    Midnight,
    MonthStart,
    QuarterHours,
    OfficeHalfHours,
    The15thOrMonday,
    Feb31,
    Feb29,
    MidnightSec,
    Every20Sec,
    SundayHalfHours,
    LastSecondOfYear,
    Minute60,
    FourFields }

\* The reference instants, in BaseYear: <<month, day, hour, minute, second,
\* nanosecond>>.
RefDates == {
    <<6, 15, 11, 59, 0, 0>>,
    <<6, 15, 12, 0, 4, 0>>,
    <<6, 15, 12, 0, 0, 500000000>>,
    <<1, 31, 23, 59, 30, 0>>,
    <<2, 28, 23, 59, 59, 0>>,
    <<3, 1, 0, 0, 0, 0>>,
    <<12, 31, 23, 59, 59, 999999999>> }

RefInstant(r) ==
    [Date(BaseYear, r[1], r[2], r[3], r[4], r[5]) EXCEPT !.nsec = r[6]]

\* var ts time.Time: the zero Time, which is never read.
ZeroTime == Date(1, 1, 1, 0, 0, 0)

\* ------------------------------------------------------ NextFrom, stepwise
\* No Cron has been constructed.
NoCron ==
    /\ from = ZeroTime /\ buf = 0 /\ chan = <<>> /\ now = ZeroTime /\ next = ZeroTime
    /\ timer = "none" /\ rpc = "none" /\ stopped = FALSE /\ closes = 0 /\ mu = 0
    /\ spc = [c \in 1..NumCallers |-> "idle"]
    /\ sret = [c \in 1..NumCallers |-> FALSE]
    /\ calls = 0 /\ clock = ZeroTime /\ sent = <<>> /\ observed = FALSE
    /\ retTrue = 0 /\ retFalse = 0 /\ cClosed = FALSE /\ sentAtStop = 0

\* No function of the package is being called on its own.
NoRet == [none |-> TRUE]
NoCall ==
    /\ call = [fn |-> "none"]
    /\ ret = NoRet
    /\ returned = FALSE

Init ==
    /\ \E text \in SpecTexts, ws \in BOOLEAN :
          /\ ~ParseSpec(text, ws).err
          /\ sched = ParseSpec(text, ws).s
    /\ withSeconds \in BOOLEAN
    /\ t \in {RefInstant(r) : r \in RefDates}
    /\ ts = ZeroTime
    /\ pc = "start"
    /\ result = ZeroTime
    /\ NoCron
    /\ NoCall

\* NextFrom's entry: the initial candidate.
NextFromEnter ==
    /\ pc = "start"
    /\ ts' = RoundUp(t, withSeconds)
    /\ pc' = "loop"
    /\ UNCHANGED <<sched, withSeconds, t, result, cronVars, callVars>>

\* The candidate brought back into the model's first CalendarCycle years.
Fold(tm) ==
    IF tm.year >= BaseYear + CalendarCycle
    THEN [tm EXCEPT !.year = tm.year - CalendarCycle] ELSE tm

\* One iteration of NextFrom's loop.
LoopBody(cyclic) ==
    /\ pc = "loop"
    /\ LET it == Iterate(sched, withSeconds, ts)
       IN IF it.ret
          THEN /\ pc' = "done"
               /\ result' = it.ts
               /\ ts' = ts
          ELSE /\ ts' = (IF cyclic THEN Fold(it.ts) ELSE it.ts)
               /\ UNCHANGED <<pc, result>>
    /\ UNCHANGED <<sched, withSeconds, t, cronVars, callVars>>

NextFromLoop ==
    /\ ts.year <= BaseYear + MaxYears
    /\ LoopBody(FALSE)

\* The same iteration with the candidate taken modulo the calendar's cycle.
NextFromLoopCyclic == LoopBody(TRUE)

Next == NextFromEnter \/ NextFromLoop

Spec == Init /\ [][Next]_vars

\* The searches followed to their end or for ever: the specs and the mode
\* that cronx.New passes on (the same flag to ParseSpec and to NextFrom).
CyclicTexts == {EveryMinute, NoonJune15, Feb31, Feb29, MidnightSec, Every20Sec}
CyclicRefDates == {<<6, 15, 11, 59, 0, 0>>, <<12, 31, 23, 59, 59, 999999999>>}

InitCyclic ==
    /\ withSeconds \in BOOLEAN
    /\ \E text \in CyclicTexts :
          /\ ~ParseSpec(text, withSeconds).err
          /\ sched = ParseSpec(text, withSeconds).s
    /\ t \in {RefInstant(r) : r \in CyclicRefDates}
    /\ ts = ZeroTime
    /\ pc = "start"
    /\ result = ZeroTime
    /\ NoCron
    /\ NoCall

NextCyclic == NextFromEnter \/ NextFromLoopCyclic

\* The loop runs whenever it can: NextFrom is straight-line code in one
\* goroutine.
CyclicSpec == InitCyclic /\ [][NextCyclic]_vars /\ WF_vars(NextCyclic)

\* A Schedule constructed directly, every value allowed: the unexported
\* domStar and dowStar keep their zero value.
DirectSchedule ==
    [Second |-> 0..59, Minute |-> 0..59, Hour |-> 0..23, Dom |-> 0..30,
     Month |-> 0..11, Dow |-> 0..6, domStar |-> FALSE, dowStar |-> FALSE]

\* Schedules with one all-zero mask, each with the mode it is searched in.
\* A second-resolution search with an empty Minute or Second mask moves its
\* candidate by an hour or a minute per iteration; its cycle of millions of
\* candidates is left out.
DegenerateInputs ==
    {<<[DirectSchedule EXCEPT !.Month = {}], FALSE>>,
     <<[DirectSchedule EXCEPT !.Month = {}], TRUE>>,
     <<[DirectSchedule EXCEPT !.Hour = {}], FALSE>>,
     <<[DirectSchedule EXCEPT !.Hour = {}], TRUE>>,
     <<[DirectSchedule EXCEPT !.Minute = {}], FALSE>>,
     <<[DirectSchedule EXCEPT !.Second = {}], FALSE>>}
DegenerateRefDates == {<<6, 15, 11, 59, 0, 0>>}

InitDegenerate ==
    /\ \E in \in DegenerateInputs : sched = in[1] /\ withSeconds = in[2]
    /\ t \in {RefInstant(r) : r \in DegenerateRefDates}
    /\ ts = ZeroTime
    /\ pc = "start"
    /\ result = ZeroTime
    /\ NoCron
    /\ NoCall

\* NextFrom on the degenerate schedules, run as in CyclicSpec.
DegenerateSpec == InitDegenerate /\ [][NextCyclic]_vars /\ WF_vars(NextCyclic)

\* ---------------------------------------------------- NextFrom, as a value
\* What a call of NextFrom gives: the instant returned (returns = TRUE), or
\* no return within MaxIterations iterations of its loop. The candidate of
\* each iteration is bound as a value before the next iteration uses it.
RECURSIVE SearchFrom(_, _, _, _)
SearchFrom(s, ws, c, n) ==
    IF n = 0 THEN [returns |-> FALSE, at |-> c]
    ELSE CHOOSE r \in {IF it.ret THEN [returns |-> TRUE, at |-> it.ts]
                                 ELSE SearchFrom(s, ws, it.ts, n - 1) :
                          it \in {Iterate(s, ws, c)}} : TRUE

NextFrom(s, tm, ws) == SearchFrom(s, ws, RoundUp(tm, ws), MaxIterations)

\* ---------------------------------------------------------------- Cron
Callers == 1..NumCallers

\* The specs given to cronx.New, each with whether WithSeconds is given.
CronTexts ==
    {<<Every20Sec, TRUE>>, <<EveryMinute, FALSE>>, <<Midnight, FALSE>>,
     <<Feb31, FALSE>>}
\* time.Now() when the Cron is constructed
CronClockDate == <<6, 15, 12, 0, 4, 0>>
\* the instants given to WithStartFrom: one before and one after that
CronFromDates == {<<6, 15, 11, 59, 0, 0>>, <<12, 31, 23, 59, 59, 999999999>>}

\* The state NewSchedule leaves: the options applied, c.from normalised, the
\* channels made and run started.
InitCron ==
    /\ \E in \in CronTexts :
          /\ withSeconds = in[2]
          /\ ~ParseSpec(in[1], in[2]).err
          /\ sched = ParseSpec(in[1], in[2]).s
    /\ clock = RefInstant(CronClockDate)
    /\ from \in {clock} \cup {RefInstant(r) : r \in CronFromDates}
    /\ buf \in 0..MaxBuf
    /\ chan = <<>>
    /\ now = ZeroTime /\ next = ZeroTime /\ timer = "none" /\ rpc = "start"
    /\ stopped = FALSE /\ closes = 0 /\ mu = 0
    /\ spc = [c \in Callers |-> "idle"]
    /\ sret = [c \in Callers |-> FALSE]
    /\ calls = 0 /\ sent = <<>> /\ observed = FALSE /\ retTrue = 0 /\ retFalse = 0
    /\ sentAtStop = 0
    /\ cClosed = FALSE
    /\ NoCall
    /\ t = ZeroTime /\ ts = ZeroTime /\ pc = "none" /\ result = ZeroTime

fixed == <<sched, withSeconds, searchVars, from, buf, cClosed, callVars>>
stopVars == <<stopped, closes, mu, spc, sret, calls, retTrue, retFalse, sentAtStop>>

\* run, up to its loop: the first instant and its timer.
RunStart ==
    /\ rpc = "start"
    /\ now' = from
    /\ \E r \in {NextFrom(sched, from, withSeconds)} :
          IF r.returns
          THEN next' = r.at /\ timer' = "active" /\ rpc' = "select"
          ELSE next' = next /\ timer' = timer /\ rpc' = "spin"
    /\ UNCHANGED <<fixed, stopVars, chan, clock, sent, observed>>

\* The runtime's timer fires once its deadline, next, has come.
TimerFire ==
    /\ timer = "active"
    /\ ~Before(clock, next)
    /\ timer' = "fired"
    /\ UNCHANGED <<fixed, stopVars, chan, now, next, rpc, clock, sent, observed>>

\* case <-timer.C: the instant is to be sent.
RunTimerCase ==
    /\ rpc = "select"
    /\ timer = "fired"
    /\ Len(sent) < MaxTicks
    /\ timer' = "expired"
    /\ rpc' = "send"
    /\ UNCHANGED <<fixed, stopVars, chan, now, next, clock, sent, observed>>

\* The send completed, but the base is left as it was: the next instant is
\* computed from the old now again.
AfterSend_StaleBase ==
    /\ sent' = Append(sent, next)
    /\ now' = now
    /\ \E r \in {NextFrom(sched, now, withSeconds)} :
          IF r.returns
          THEN next' = r.at /\ timer' = "active" /\ rpc' = "select"
          ELSE next' = next /\ timer' = timer /\ rpc' = "spin"

\* The send completed, and the base is taken from the wall clock.
AfterSend_FromClock ==
    /\ sent' = Append(sent, next)
    /\ now' = clock
    /\ \E r \in {NextFrom(sched, clock, withSeconds)} :
          IF r.returns
          THEN next' = r.at /\ timer' = "active" /\ rpc' = "select"
          ELSE next' = next /\ timer' = timer /\ rpc' = "spin"

\* After c.c <- next has completed: the new base, the next instant and a
\* new timer for it.
AfterSend ==
    /\ sent' = Append(sent, next)
    /\ now' = next
    /\ \E r \in {NextFrom(sched, next, withSeconds)} :
          IF r.returns
          THEN next' = r.at /\ timer' = "active" /\ rpc' = "select"
          ELSE next' = next /\ timer' = timer /\ rpc' = "spin"

\* c.c <- next completes into the buffer.
RunSend ==
    /\ rpc = "send"
    /\ Len(chan) < buf
    /\ chan' = Append(chan, next)
    /\ AfterSend
    /\ UNCHANGED <<fixed, stopVars, clock, observed>>

\* c.c <- next completes by handing the instant to a consumer receiving
\* from an unbuffered C.
RunHandoff ==
    /\ rpc = "send"
    /\ buf = 0
    /\ chan' = chan
    /\ AfterSend
    /\ UNCHANGED <<fixed, stopVars, clock, observed>>

\* A stopTimer that leaves the timer running.
stopTimer_Noop(tm) == tm

\* stopTimer(timer)
stopTimer(tm) ==
    IF tm = "active" THEN "stopped" ELSE IF tm = "fired" THEN "expired" ELSE tm

\* The stop case leaving the select only (a break), not the loop.
RunStopCase_Break ==
    /\ rpc = "select"
    /\ closes > 0
    /\ observed' = TRUE
    /\ UNCHANGED <<fixed, stopped, closes,
                   mu, spc, sret, calls, retTrue, retFalse, sentAtStop, chan, now,
                   next,
                   timer, rpc, clock, sent>>

\* The stop case with a deferred cleanup that also closes c.c.
RunStopCase_CloseC ==
    /\ rpc = "select"
    /\ closes > 0
    /\ rpc' = "exited"
    /\ timer' = stopTimer(timer)
    /\ observed' = TRUE
    /\ cClosed' = TRUE
    /\ UNCHANGED <<sched, withSeconds, searchVars, from, buf, callVars, stopVars,
                   chan, now, next, clock, sent>>

\* case <-c.stop: return, and the deferred stopTimer.
RunStopCase ==
    /\ rpc = "select"
    /\ closes > 0
    /\ rpc' = "exited"
    /\ timer' = stopTimer(timer)
    /\ observed' = TRUE
    /\ UNCHANGED <<fixed, stopVars, chan, now, next, clock, sent>>

\* A consumer receives from C.
Receive ==
    /\ chan # <<>>
    /\ chan' = Tail(chan)
    /\ UNCHANGED <<fixed, stopVars, now, next, timer, rpc, clock, sent, observed>>

\* Time passes: up to the pending deadline, or one more period of the
\* schedule beyond it.
Tick ==
    /\ rpc \in {"select", "send"}
    /\ \E r \in {NextFrom(sched, next, withSeconds)} :
       \E target \in {next} \cup (IF r.returns THEN {r.at} ELSE {}) :
          /\ After(target, clock)
          /\ clock' = target
    /\ UNCHANGED <<fixed, stopVars, chan, now, next, timer, rpc, sent, observed>>

runVars == <<chan, now, next, timer, rpc, clock, sent, observed>>

\* Stop entered without taking the mutex.
StopLock_NoMutex(c) ==
    /\ spc[c] = "idle"
    /\ calls < MaxStopCalls
    /\ mu' = c
    /\ spc' = [spc EXCEPT ![c] = "locked"]
    /\ calls' = calls + 1
    /\ UNCHANGED <<fixed, chan, now, next,
                   timer, rpc, clock, sent, observed, stopped, closes, sret,
                   retTrue, retFalse, sentAtStop>>

\* Stop: c.mu.Lock()
StopLock(c) ==
    /\ spc[c] = "idle"
    /\ calls < MaxStopCalls
    /\ mu = 0
    /\ mu' = c
    /\ spc' = [spc EXCEPT ![c] = "locked"]
    /\ calls' = calls + 1
    /\ UNCHANGED <<fixed, runVars, stopped, closes, sret, retTrue, retFalse,
                   sentAtStop>>

\* Stop: if c.stopped { return false }
StopCheck(c) ==
    /\ spc[c] = "locked"
    /\ IF stopped
       THEN spc' = [spc EXCEPT ![c] = "return"] /\ sret' = [sret EXCEPT ![c] = FALSE]
       ELSE spc' = [spc EXCEPT ![c] = "close"] /\ sret' = sret
    /\ UNCHANGED <<fixed, runVars, stopped, closes, mu, calls, retTrue, retFalse,
                   sentAtStop>>

\* Stop: c.stopped = true; close(c.stop); return true
StopClose(c) ==
    /\ spc[c] = "close"
    /\ stopped' = TRUE
    /\ closes' = closes + 1
    /\ spc' = [spc EXCEPT ![c] = "return"]
    /\ sret' = [sret EXCEPT ![c] = TRUE]
    /\ UNCHANGED <<fixed, runVars, mu, calls, retTrue, retFalse, sentAtStop>>

\* Stop returns: the deferred c.mu.Unlock(), and the value goes to the caller.
StopReturn(c) ==
    /\ spc[c] = "return"
    /\ mu' = 0
    /\ spc' = [spc EXCEPT ![c] = "idle"]
    /\ retTrue' = retTrue + (IF sret[c] THEN 1 ELSE 0)
    /\ retFalse' = retFalse + (IF sret[c] THEN 0 ELSE 1)
    /\ sentAtStop' = (IF sret[c] THEN Len(sent) ELSE sentAtStop)
    /\ UNCHANGED <<fixed, runVars, stopped, closes, sret, calls>>

Stop == \E c \in Callers : StopLock(c) \/ StopCheck(c) \/ StopClose(c) \/ StopReturn(c)

\* The instant given to Cron.Next: the last nanosecond of BaseYear.
PeekFromDates == {<<12, 31, 23, 59, 59, 999999999>>}

\* Cron.Next that also makes its result the loop's pending instant.
CronNext_Advance ==
    /\ \E f \in {RefInstant(r) : r \in PeekFromDates} :
       \E r \in {NextFrom(sched, f, withSeconds)} :
          /\ r.returns
          /\ t' = f
          /\ result' = r.at
          /\ next' = r.at
    /\ UNCHANGED <<sched, withSeconds, ts, pc, from, buf, cClosed, callVars, stopVars,
                   chan, now, timer, rpc, clock, sent, observed>>

\* Cron.Next(from), called by anyone at any time: t is the argument and
\* result the instant returned. A call whose search does not return takes
\* no step.
CronNext ==
    /\ \E f \in {RefInstant(r) : r \in PeekFromDates} :
       \E r \in {NextFrom(sched, f, withSeconds)} :
          /\ r.returns
          /\ t' = f
          /\ result' = r.at
    /\ UNCHANGED <<sched, withSeconds, ts, pc, from, buf, cClosed, callVars, stopVars,
                   runVars>>

Run == RunStart \/ RunTimerCase \/ RunSend \/ RunStopCase

NextCron == Run \/ RunHandoff \/ TimerFire \/ Receive \/ Tick \/ Stop \/ CronNext

CronSpec == InitCron /\ [][NextCron]_vars

\* The run goroutine and a Stop call in progress take their steps, and a
\* timer that is due fires; no consumer has to receive, and nobody has to
\* call Stop.
FairCronSpec ==
    /\ CronSpec
    /\ WF_vars(Run)
    /\ WF_vars(TimerFire)
    /\ \A c \in Callers : WF_vars(StopCheck(c) \/ StopClose(c) \/ StopReturn(c))

\* ------------------------------------------------ calls of the functions
\* More specs given to ParseSpec and New.
\* ""
EmptySpec == <<>>
\* "* * * * * * *"
SevenFields == <<"*", " ", "*", " ", "*", " ", "*", " ", "*", " ", "*", " ", "*">>
\* "0 24 * * *"
Hour24 == <<"0", " ", "2", "4", " ", "*", " ", "*", " ", "*">>
\* "0 0 0 * *"
Dom0 == <<"0", " ", "0", " ", "0", " ", "*", " ", "*">>
\* "0 0 32 * *"
Dom32 == <<"0", " ", "0", " ", "3", "2", " ", "*", " ", "*">>
\* "0 0 1 0 *"
Month0 == <<"0", " ", "0", " ", "1", " ", "0", " ", "*">>
\* "0 0 1 13 *"
Month13 == <<"0", " ", "0", " ", "1", " ", "1", "3", " ", "*">>
\* "0 17-9 * * *"
ReversedRange == <<"0", " ", "1", "7", "-", "9", " ", "*", " ", "*", " ", "*">>
\* "18446744073709551616 * * * *"
Minute2Pow64 == <<"1", "8", "4", "4", "6", "7", "4", "4", "0", "7", "3", "7", "0", "9", "5", "5", "1", "6", "1", "6", " ", "*", " ", "*", " ", "*", " ", "*">>
\* "0 0 * * 7"
Dow7 == <<"0", " ", "0", " ", "*", " ", "*", " ", "7">>
\* "0 0 * * SUN"
DowSun == <<"0", " ", "0", " ", "*", " ", "*", " ", "S", "U", "N">>
\* "0 0 * * 0"
Dow0 == <<"0", " ", "0", " ", "*", " ", "*", " ", "0">>
\* "0 0 * * 6-7"
Dow6To7 == <<"0", " ", "0", " ", "*", " ", "*", " ", "6", "-", "7">>
\* "0 0 * * */7"
DowStep7 == <<"0", " ", "0", " ", "*", " ", "*", " ", "*", "/", "7">>
\* "0 0 * * 1,7"
DowList17 == <<"0", " ", "0", " ", "*", " ", "*", " ", "1", ",", "7">>
\* "0 0 */1 * mon"
DomStep1Monday == <<"0", " ", "0", " ", "*", "/", "1", " ", "*", " ", "m", "o", "n">>
\* "0 0 1-31 * mon"
DomAllMonday == <<"0", " ", "0", " ", "1", "-", "3", "1", " ", "*", " ", "m", "o", "n">>
\* "0 0 15 * ?"
Dom15Question == <<"0", " ", "0", " ", "1", "5", " ", "*", " ", "?">>
\* "0 0 * * mon"
Mondays == <<"0", " ", "0", " ", "*", " ", "*", " ", "m", "o", "n">>
\* "0 0 15 * 0-6"
Dom15DowAll == <<"0", " ", "0", " ", "1", "5", " ", "*", " ", "0", "-", "6">>
\* "30 0 0 * * 7"
Sec30Dow7 == <<"3", "0", " ", "0", " ", "0", " ", "*", " ", "*", " ", "7">>

\* "0 9-17/2 * * mon-fri"
WorkHoursEvery2 == <<"0", " ", "9", "-", "1", "7", "/", "2", " ", "*", " ", "*", " ", "m", "o", "n", "-", "f", "r", "i">>

CallTexts ==
    SpecTexts \cup
    {EmptySpec, SevenFields, Hour24, Dom0,
     Dom32, Month0, Month13, ReversedRange,
     Minute2Pow64, Dow7, DowSun, Dow0,
     Dow6To7, DowStep7, DowList17, DomStep1Monday,
     DomAllMonday, Dom15Question, Mondays, Dom15DowAll,
     Sec30Dow7, WorkHoursEvery2}

\* The decimal text of a number.
RECURSIVE Decimal(_)
Decimal(n) ==
    IF n < 10 THEN <<DigitChars[n + 1]>>
    ELSE Decimal(n \div 10) \o <<DigitChars[(n % 10) + 1]>>

\* The fields given to parseField: the literals 0..MaxLiteral, ranges between
\* the values around the ends of the five domains, and literals of many
\* digits.
RangeEnds == {0, 1, 6, 7, 12, 13, 23, 24, 31, 32, 59, 60}
\* 2^64
Lit2Pow64 == <<"1", "8", "4", "4", "6", "7", "4", "4", "0", "7", "3", "7", "0", "9", "5", "5", "1", "6", "1", "6">>
\* 2^64 + 5
Lit2Pow64Plus5 == <<"1", "8", "4", "4", "6", "7", "4", "4", "0", "7", "3", "7", "0", "9", "5", "5", "1", "6", "2", "1">>
\* 2^63
Lit2Pow63 == <<"9", "2", "2", "3", "3", "7", "2", "0", "3", "6", "8", "5", "4", "7", "7", "5", "8", "0", "8">>
Lit0059 == <<"0", "0", "5", "9">>
Lit0005 == <<"0", "0", "0", "5">>

FieldTexts ==
    {Decimal(v) : v \in 0..MaxLiteral}
        \cup {Decimal(a) \o <<"-">> \o Decimal(b) : a \in RangeEnds, b \in RangeEnds}
        \cup {Lit2Pow64, Lit2Pow64Plus5, Lit2Pow63, Lit0059, Lit0005}
        \cup {Lit2Pow64Plus5 \o <<"-">> \o Decimal(6), Decimal(1) \o <<"-">> \o Lit2Pow64Plus5}

\* The domains and name tables parseWithSeconds gives parseField:
\* <<min, max, names>>.
FieldDomains ==
    {<<0, 59, "nil">>, <<0, 23, "nil">>, <<1, 31, "nil">>, <<1, 12, "monNames">>,
     <<0, 6, "dowNames">>}

NamesOf(which) ==
    IF which = "monNames" THEN monNames
    ELSE IF which = "dowNames" THEN dowNames ELSE NoNames

\* The dates given to dayMatches: <<month, day>> in BaseYear.
MatchDates == {<<1, 1>>, <<1, 15>>, <<2, 29>>, <<6, 15>>, <<6, 16>>, <<6, 17>>,
               <<6, 18>>, <<7, 15>>, <<12, 31>>}

\* The masks, domains and positions given to nextAllowed: every mask of
\* MaskWidth bits, over the domains 0..MaskWidth-1 and 1..MaskWidth.
MaskInputs ==
    {[fn |-> "nextAllowed", mask |-> m, cur |-> c, min |-> lo, max |-> lo + MaskWidth - 1] :
        m \in SUBSET (0..(MaskWidth - 1)), lo \in {0, 1}, c \in 0..MaskWidth}

CallInputs ==
    {[fn |-> "ParseSpec", spec |-> x, withSeconds |-> ws] :
        x \in CallTexts, ws \in BOOLEAN}
    \cup {[fn |-> "New", spec |-> x, withSeconds |-> ws] :
        x \in CallTexts, ws \in BOOLEAN}
    \cup {[fn |-> "NewSchedule", s |-> ParseSpec(x[1], x[2]).s, withSeconds |-> ws] :
        x \in {<<NoonJune15Sec5, TRUE>>, <<Every20Sec, TRUE>>, <<NoonJune15, FALSE>>,
               <<NoonJune15, TRUE>>},
        ws \in BOOLEAN}
    \cup {[fn |-> "parseField", field |-> x, min |-> d[1], max |-> d[2], names |-> d[3]] :
        x \in FieldTexts, d \in FieldDomains}
    \cup {[fn |-> "dayMatches", spec |-> x, date |-> d] :
        x \in {y \in CallTexts : ~ParseSpec(y, FALSE).err}, d \in MatchDates}
    \cup {c \in MaskInputs : c.cur >= c.min /\ c.cur <= c.max}

\* What NewSchedule returns: the Cron (never nil), a nil error, and its run
\* goroutine started.
NewSchedule(s, ws) ==
    [err |-> FALSE, nil |-> FALSE, started |-> TRUE, sched |-> s, withSeconds |-> ws]

\* What New returns.
New(spec, ws) ==
    LET p == ParseSpec(spec, ws)
    IN IF p.err
       THEN [err |-> TRUE, nil |-> TRUE, started |-> FALSE, sched |-> ZeroSchedule,
             withSeconds |-> ws]
       ELSE NewSchedule(p.s, ws)

InitCalls ==
    /\ call \in CallInputs
    /\ ret = NoRet
    /\ returned = FALSE
    /\ sched = ZeroSchedule /\ withSeconds = FALSE
    /\ t = ZeroTime /\ ts = ZeroTime /\ pc = "none" /\ result = ZeroTime
    /\ NoCron

Returns(fn, value) ==
    /\ call.fn = fn
    /\ ~returned
    /\ ret' = value
    /\ returned' = TRUE
    /\ UNCHANGED <<sched, withSeconds, searchVars, cronVars, call>>

CallParseSpec ==
    call.fn = "ParseSpec" /\ Returns("ParseSpec", ParseSpec(call.spec, call.withSeconds))

CallNew ==
    call.fn = "New" /\ Returns("New", New(call.spec, call.withSeconds))

CallNewSchedule ==
    call.fn = "NewSchedule" /\ Returns("NewSchedule", NewSchedule(call.s, call.withSeconds))

CallParseField ==
    /\ call.fn = "parseField"
    /\ Returns("parseField", parseField(call.field, call.min, call.max, NamesOf(call.names)))

\* The schedule is parsed without seconds and dayMatches is called on it.
CallDayMatches ==
    /\ call.fn = "dayMatches"
    /\ Returns("dayMatches",
               [ok |-> dayMatches(ParseSpec(call.spec, FALSE).s,
                                  Date(BaseYear, call.date[1], call.date[2], 0, 0, 0))])

CallNextAllowed ==
    /\ call.fn = "nextAllowed"
    /\ Returns("nextAllowed", nextAllowed(call.mask, call.cur, call.min, call.max))

NextCalls ==
    \/ CallParseSpec
    \/ CallNew
    \/ CallNewSchedule
    \/ CallParseField
    \/ CallDayMatches
    \/ CallNextAllowed

CallSpec == InitCalls /\ [][NextCalls]_vars

\* ------------------------------------------------------------- claims
\* All the field constraints NextFrom searches for hold at instant tm.
Matches(s, ws, tm) ==
    /\ Bit(s.Month, tm.month - 1)
    /\ dayMatches(s, tm)
    /\ Bit(s.Hour, tm.hour)
    /\ Bit(s.Minute, tm.minute)
    /\ ws => Bit(s.Second, tm.second)

\* Some instant u on the grid of the mode (a whole second, or a whole minute)
\* with lo < u < hi matches the schedule.
MatchBetween(s, ws, lo, hi) ==
    \E k \in 0..((SinceBase(hi) - SinceBase(lo)) \div (24 * Hour) + 1) :
        LET day == Date(lo.year, lo.month, lo.day + k, 0, 0, 0)
            d0 == SinceBase(day)
        IN /\ Bit(s.Month, day.month - 1)
           /\ dayMatches(s, day)
           /\ \E h \in s.Hour \cap 0..23 :
                /\ d0 + h * Hour + (Hour - 1) > SinceBase(lo)
                /\ d0 + h * Hour < SinceBase(hi)
                /\ \E mi \in s.Minute \cap 0..59 :
                     /\ d0 + h * Hour + mi * Minute + (Minute - 1) > SinceBase(lo)
                     /\ d0 + h * Hour + mi * Minute < SinceBase(hi)
                     /\ \E sc \in (IF ws THEN s.Second \cap 0..59 ELSE {0}) :
                          LET u == d0 + h * Hour + mi * Minute + sc
                          IN u > SinceBase(lo) /\ u < SinceBase(hi)

\* C1: whenever NextFrom returns an instant, the instant satisfies every
\* field constraint of the schedule (month, day rule, hour, minute, and the
\* second in second resolution).
C1_ResultMatches == pc = "done" => Matches(sched, withSeconds, result)

\* C2: whenever NextFrom returns an instant, no matching instant of the
\* mode's grid lies strictly between the reference and the one returned.
C2_ResultEarliest == pc = "done" => ~MatchBetween(sched, withSeconds, t, result)

\* C3: NextFrom terminates: the search loop eventually returns.
C3_Terminates == <>(pc = "done")

C5_BlockedSendPreempted == [](rpc = "send" /\ closes > 0 => <>(rpc = "exited"))

\* C6: while the loop waits in its select with the timer not yet fired, the
\* only way out of the wait is the stop case: the loop exits, the pending
\* instant is neither sent nor put into C, and the timer is stopped; and
\* once Stop has closed the stop channel, that way out is open to the loop
\* in every such wait.
C6_DeadlineWaitPreemptible ==
    /\ [][rpc = "select" /\ timer = "active" /\ rpc' # "select"
            => /\ closes > 0
               /\ rpc' = "exited"
               /\ sent' = sent
               /\ chan' = chan
               /\ timer' = "stopped"]_vars
    /\ [](rpc = "select" /\ timer = "active" /\ closes > 0
            => ENABLED <<RunStopCase>>_vars)

\* The loop has left a wait whose deadline had not come, its timer stopped.
C6_Witness ==
    /\ rpc = "exited"
    /\ timer = "stopped"
    /\ Before(clock, next)
    /\ sent = <<>>

\* C7: the stop channel is closed at most once and at most one Stop call
\* returns true; a call returns false only after the close; and when every
\* call begun has returned, exactly one returned true and all the others
\* false.
C7_StopOnce ==
    /\ closes <= 1
    /\ retTrue <= 1
    /\ retFalse > 0 => closes = 1 /\ stopped
    /\ (calls > 0 /\ \A c \in Callers : spc[c] = "idle")
          => retTrue = 1 /\ retFalse = calls - 1 /\ closes = 1

\* One Stop call has returned true while another, begun before that return
\* or after it, is about to return false.
C7_Witness ==
    /\ calls = NumCallers
    /\ retTrue = 1
    /\ \E c \in Callers : spc[c] = "return" /\ ~sret[c]

C9_NoCatchUp ==
    /\ sent # <<>> =>
          LET r == NextFrom(sched, from, withSeconds)
          IN r.returns /\ sent[1] = r.at
    /\ \A i \in 1..(Len(sent) - 1) :
          LET r == NextFrom(sched, sent[i], withSeconds)
          IN r.returns /\ sent[i + 1] = r.at

\* A send completed late: the wall clock had passed the instant after the
\* one being sent, and one more instant has been sent since.
C9_Witness ==
    /\ Len(sent) >= 2
    /\ After(clock, sent[Len(sent)])
    /\ from # clock

\* C10: once the loop has taken the stop case it has exited, and from then
\* on nothing is sent and nothing is added to C.
C10_StopObservedIsFinal ==
    [][/\ observed' => rpc' = "exited"
       /\ observed => sent' = sent /\ Len(chan') <= Len(chan)]_vars

\* The loop took the stop case after instants had been sent, with a fired
\* timer pending.
C10_Witness ==
    /\ observed
    /\ rpc = "exited"
    /\ timer = "expired"
    /\ sent # <<>>

\* A second mask that asks for second resolution: neither unset, nor only
\* second 0, nor every second.
NonTrivialSecond(s) == s.Second # {} /\ s.Second # {0} /\ s.Second # 0..59

\* C11: NewSchedule returns an error when the Schedule carries a non-trivial
\* second mask and WithSeconds is not supplied, and succeeds with WithSeconds.
C11_NewScheduleRejectsSeconds ==
    call.fn = "NewSchedule" /\ returned =>
        /\ (NonTrivialSecond(call.s) /\ ~call.withSeconds => ret.err)
        /\ (call.withSeconds => ~ret.err)

\* The five fields of a spec read in order as minute, hour, day-of-month,
\* month, day-of-week give the masks of s.
FieldsInOrder(spec, s) ==
    LET f == Fields(spec)
    IN /\ s.Minute = parseField(f[1], 0, 59, NoNames).mask
       /\ s.Hour = parseField(f[2], 0, 23, NoNames).mask
       /\ s.Dom = parseField(f[3], 1, 31, NoNames).mask
       /\ s.Month = parseField(f[4], 1, 12, monNames).mask
       /\ s.Dow = parseField(ReplaceAll7(f[5]), 0, 6, dowNames).mask

\* C12: ParseSpec with seconds disabled and a 5-field spec yields a Second
\* mask with exactly bit 0 set, and maps the five fields in order to minute,
\* hour, day-of-month, month, day-of-week ("0 12 15 6 *" gives bit 0, bit 12,
\* bit 14, bit 5 and every weekday).
C12_SecondsOffSecondZero ==
    call.fn = "ParseSpec" /\ returned /\ ~call.withSeconds /\ ~ret.err =>
        /\ ret.s.Second = {0}
        /\ FieldsInOrder(call.spec, ret.s)
        /\ (call.spec = NoonJune15 =>
               /\ ret.s.Minute = {0} /\ ret.s.Hour = {12} /\ ret.s.Dom = {14}
               /\ ret.s.Month = {5} /\ ret.s.Dow = 0..6)

\* C13: ParseSpec with seconds enabled and a 5-field spec defaults the seconds
\* field to "*" (Second = 0..59) and reads the five fields in order as minute,
\* hour, day-of-month, month, day-of-week, so that the five masks equal those
\* of the same text parsed with seconds disabled; with 6 fields the first
\* field is seconds.
C13_SecondsOnDefaultsSeconds ==
    call.fn = "ParseSpec" /\ returned /\ call.withSeconds =>
        /\ (Len(Fields(call.spec)) = 5 /\ ~ParseSpec(call.spec, FALSE).err =>
               /\ ~ret.err
               /\ ret.s.Second = 0..59
               /\ FieldsInOrder(call.spec, ret.s)
               /\ \A k \in {"Minute", "Hour", "Dom", "Month", "Dow"} :
                      ret.s[k] = ParseSpec(call.spec, FALSE).s[k])
        /\ (Len(Fields(call.spec)) = 6 /\ ~ret.err =>
               ret.s.Second = parseField(Fields(call.spec)[1], 0, 59, NoNames).mask)

\* The text of a day field is a bare wildcard.
BareWildcard(f) == f = <<"*">> \/ f = <<"?">>

\* C14: for every date, dayMatches is true iff (a) neither day field was a
\* bare wildcard and the day-of-month bit or the weekday bit is set; (b) only
\* day-of-month was not a wildcard and its bit is set; (c) only day-of-week
\* was not a wildcard and its bit is set; (d) both were bare wildcards. A
\* field is a wildcard when its text is exactly "*" or "?".
C14_VixieDayRule ==
    call.fn = "dayMatches" /\ returned =>
        LET f == Fields(call.spec)
            s == ParseSpec(call.spec, FALSE).s
            d == Date(BaseYear, call.date[1], call.date[2], 0, 0, 0)
            domWild == BareWildcard(f[3])
            dowWild == BareWildcard(f[5])
            domOk == (d.day - 1) \in s.Dom
            dowOk == WeekdayOf(d) \in s.Dow
        IN ret.ok = (IF ~domWild /\ ~dowWild THEN domOk \/ dowOk
                     ELSE IF ~domWild THEN domOk
                     ELSE IF ~dowWild THEN dowOk
                     ELSE TRUE)

\* "0 0 */1 * mon" on Saturday 15 June 2024: the day-of-month field is a full
\* mask but not a bare wildcard, so the day matches although it is no Monday.
C14_Witness ==
    /\ call.fn = "dayMatches" /\ returned
    /\ call.spec = DomStep1Monday /\ call.date = <<6, 15>>
    /\ WeekdayOf(Date(BaseYear, 6, 15, 0, 0, 0)) = 6
    /\ ret.ok

\* The number of whitespace-separated fields of a text: the positions where a
\* field starts.
FieldCount(str) ==
    Cardinality({i \in 1..Len(str) :
                    ~IsSpace(str[i]) /\ (i = 1 \/ IsSpace(str[i - 1]))})

\* C15: ParseSpec fails for every field count other than 5 when seconds are
\* disabled and other than 5 or 6 when seconds are enabled; on any parse
\* failure the returned Schedule is the zero value, and New returns a nil
\* Cron without starting a control loop.
C15_ParseFailure ==
    /\ call.fn = "ParseSpec" /\ returned =>
          /\ (~call.withSeconds /\ FieldCount(call.spec) # 5 => ret.err)
          /\ (call.withSeconds /\ FieldCount(call.spec) \notin {5, 6} => ret.err)
          /\ (ret.err => ret.s = ZeroSchedule)
    /\ call.fn = "New" /\ returned =>
          /\ (ParseSpec(call.spec, call.withSeconds).err =>
                 ret.err /\ ret.nil /\ ~ret.started)
          /\ (~call.withSeconds /\ FieldCount(call.spec) # 5 => ret.nil)
          /\ (call.withSeconds /\ FieldCount(call.spec) \notin {5, 6} => ret.nil)

\* New("0 24 * * *") has returned: a range failure in the second of five
\* fields, after the first field was parsed.
C15_Witness ==
    /\ call.fn = "New" /\ returned
    /\ call.spec = Hour24 /\ ~call.withSeconds
    /\ FieldCount(call.spec) = 5
    /\ ret.err /\ ret.nil /\ ~ret.started

\* The decimal value of a string of digits, as a number; values of
\* DecimalCap and more are kept as DecimalCap, which lies above every field
\* domain.
DecimalCap == 10 ^ 6
RECURSIVE DecimalFrom(_, _, _)
DecimalFrom(str, i, n) ==
    IF i > Len(str) THEN n
    ELSE LET m == n * 10 + DigitVal(str[i])
         IN DecimalFrom(str, i + 1, IF m > DecimalCap THEN DecimalCap ELSE m)
DecimalValue(str) == DecimalFrom(str, 1, 0)

AllDigits(str) == str # <<>> /\ \A i \in 1..Len(str) : IsDigit(str[i])

\* C16: parsing a field fails for every numeric value or range bound whose
\* decimal value lies outside the field's domain [min, max], for literals of
\* any digit length, and for every range a-b with a > b; and no accepted
\* literal sets a bit for a value other than its decimal value.
C16_BoundaryRejection ==
    call.fn = "parseField" /\ returned =>
        LET x == call.field
            dash == IndexByte(x, "-")
            a == Slice(x, 0, dash)
            b == Slice(x, dash + 1, Len(x))
        IN /\ AllDigits(x) =>
                /\ (DecimalValue(x) \notin call.min..call.max => ret.err)
                /\ (~ret.err => ret.mask = {DecimalValue(x) - call.min})
           /\ dash >= 0 /\ AllDigits(a) /\ AllDigits(b) =>
                /\ (DecimalValue(a) \notin call.min..call.max => ret.err)
                /\ (DecimalValue(b) \notin call.min..call.max => ret.err)
                /\ (DecimalValue(a) > DecimalValue(b) => ret.err)

\* A text with each character "7" replaced by "0".
SevensZeroed(str) == [i \in 1..Len(str) |-> IF str[i] = "7" THEN "0" ELSE str[i]]

\* C17: before the day-of-week field is parsed every character "7" of its raw
\* text is replaced by "0", also inside range bounds and step values: "7",
\* "sun" and "0" give the same mask, "6-7" is parsed as "6-0" and "*/7" as
\* "*/0" (both errors), "1,7" as "1,0".
C17_DowSevenRewritten ==
    call.fn = "ParseSpec" /\ returned
        /\ Len(Fields(call.spec)) = (IF call.withSeconds THEN 6 ELSE 5) =>
        LET f == Fields(call.spec)
            raw == f[Len(f)]
            dow == parseField(SevensZeroed(raw), 0, 6, dowNames)
        IN /\ (dow.err => ret.err)
           /\ (~ret.err => ret.s.Dow = dow.mask /\ ret.s.dowStar = dow.star)
           /\ (raw \in {<<"7">>, <<"0">>, <<"S", "U", "N">>, <<"s", "u", "n">>} =>
                  ~ret.err /\ ret.s.Dow = {0})
           /\ (raw = <<"6", "-", "7">> => ret.err)
           /\ (raw = <<"*", "/", "7">> => ret.err)
           /\ (raw = <<"1", ",", "7">> => ~ret.err /\ ret.s.Dow = {0, 1})

\* ParseSpec("0 0 * * 6-7", false) has returned the error of the range 6-0.
C17_Witness ==
    /\ call.fn = "ParseSpec" /\ returned
    /\ call.spec = Dow6To7 /\ ~call.withSeconds
    /\ ret.err
    /\ parseField(<<"6", "-", "0">>, 0, 6, dowNames).err
    /\ ~parseField(<<"0", "-", "6">>, 0, 6, dowNames).err

\* The least element of a non-empty set of numbers.
Least(S) == CHOOSE v \in S : \A w \in S : v <= w

\* C20: for every mask, domain [min, max] and position cur in the domain,
\* nextAllowed returns (v, false) with v the smallest allowed value >= cur if
\* there is one; otherwise (the lowest allowed value, true); and (min, true)
\* for the all-zero mask.
C20_CircularNextSetBit ==
    call.fn = "nextAllowed" /\ returned =>
        LET allowed == {v \in call.min..call.max : (v - call.min) \in call.mask}
            above == {v \in allowed : v >= call.cur}
        IN IF above # {} THEN ret = [val |-> Least(above), wrap |-> FALSE]
           ELSE IF allowed # {} THEN ret = [val |-> Least(allowed), wrap |-> TRUE]
           ELSE ret = [val |-> call.min, wrap |-> TRUE]

\* A call that wrapped around to an allowed value above min.
C20_Witness ==
    /\ call.fn = "nextAllowed" /\ returned
    /\ call.min = 1 /\ call.mask = {1, 2} /\ call.cur = 4
    /\ ret = [val |-> 2, wrap |-> TRUE]

\* The instants of a sequence.
Elements(seq) == {seq[i] : i \in 1..Len(seq)}

\* C18: Stop never closes the delivery channel C. In every reachable state,
\* before and after any number of Stop calls, C is open; once the loop has
\* exited, a receive on C yields an instant handed over before, and blocks
\* when C is empty.
C18_StopNeverClosesC ==
    /\ [](cClosed = FALSE)
    /\ [](rpc = "exited" /\ chan = <<>> => ~ENABLED <<Receive>>_vars)
    /\ [][rpc = "exited" /\ chan' # chan =>
             /\ chan # <<>>
             /\ chan' = Tail(chan)
             /\ Head(chan) \in Elements(sent)
             /\ cClosed' = FALSE]_vars

\* Stop has returned true, the loop has exited, and C still holds an instant
\* for a later receive.
C18_Witness ==
    /\ retTrue = 1
    /\ rpc = "exited"
    /\ chan # <<>>
    /\ cClosed = FALSE

\* C19: Cron.Next is a pure read. A call in any runtime state, running or
\* stopped, leaves the loop's base instant, its pending next instant, the
\* channel contents, the stopped flag and everything else of the Cron and its
\* loop unchanged, the instants delivered on C among them; and its result is
\* NextFrom of the instant given.
C19_NextIsPureRead ==
    [][t' # t \/ result' # result =>
          /\ UNCHANGED <<now, next, chan, stopped, sent>>
          /\ UNCHANGED <<sched, withSeconds, from, buf, closes, timer, rpc, clock,
                         mu, spc, observed, cClosed>>
          /\ NextFrom(sched, t', withSeconds).returns
          /\ result' = NextFrom(sched, t', withSeconds).at]_vars

\* Next has been called on a Cron that was stopped after it delivered an
\* instant, with an instant pending.
C19_Witness ==
    /\ t # ZeroTime
    /\ result = NextFrom(sched, t, withSeconds).at
    /\ result # next
    /\ stopped /\ rpc = "exited"
    /\ sent # <<>>

\* C21: for a Schedule whose month, hour, minute or second mask is all-zero,
\* NextFrom still terminates: the search loop eventually returns.
C21_DegenerateTerminates ==
    <>(pc = "done" /\ \E k \in {"Month", "Hour", "Minute", "Second"} : sched[k] = {})

\* Second masks to compare a schedule's own with: none, one second, all.
OtherSeconds == {{}, {30}, 0..59}

\* C22: in minute resolution every instant NextFrom returns has second 0 and
\* lies on a whole minute, and the result does not depend on the Second mask:
\* with any other Second mask each iteration of the search gives the same
\* candidate or return value, and so does the search as a whole.
C22_MinuteResolution ==
    ~withSeconds =>
        /\ (pc = "done" => result.second = 0 /\ result.nsec = 0)
        /\ (pc = "loop" =>
               \A sm \in OtherSeconds :
                   Iterate([sched EXCEPT !.Second = sm], FALSE, ts)
                       = Iterate(sched, FALSE, ts))
        /\ (pc = "done" =>
               \A sm \in OtherSeconds :
                   LET r == NextFrom([sched EXCEPT !.Second = sm], t, FALSE)
                   IN r.returns => r.at = result)

\* A schedule parsed with the second 5 has been searched in minute resolution
\* from an instant off the minute, within the iterations NextFrom's value is
\* computed for.
C22_Witness ==
    /\ pc = "done" /\ ~withSeconds
    /\ sched.Second = {5}
    /\ t.second # 0
    /\ result.second = 0
    /\ NextFrom([sched EXCEPT !.Second = {30}], t, FALSE) = [returns |-> TRUE, at |-> result]

\* The number of values of each field's domain.
DomainWidth ==
    [Second |-> 60, Minute |-> 60, Hour |-> 24, Dom |-> 31, Month |-> 12, Dow |-> 7]

\* C23: every Schedule that ParseSpec returns without error has all six masks
\* non-zero and no bit set at or above its field's domain width: 60 for second
\* and minute, 24 for hour, 31 for day-of-month, 12 for month, 7 for
\* day-of-week.
C23_ParsedMasksWellFormed ==
    call.fn = "ParseSpec" /\ returned /\ ~ret.err =>
        \A k \in DOMAIN DomainWidth :
            /\ ret.s[k] # {}
            /\ \A b \in ret.s[k] : b >= 0 /\ b < DomainWidth[k]

\* ParseSpec("0 9-17/2 * * mon-fri", false) has returned its masks: a range
\* with a step and a range of names.
C23_Witness ==
    /\ call.fn = "ParseSpec" /\ returned /\ ~ret.err
    /\ call.spec = WorkHoursEvery2 /\ ~call.withSeconds
    /\ ret.s.Hour = {9, 11, 13, 15, 17}
    /\ ret.s.Dow = 1..5
    /\ ret.s.Dom = 0..30

\* C24: after a Stop call has returned true, the loop sends at most one
\* further instant on C before it exits: with sentAtStop instants sent when
\* Stop returned true, never more than sentAtStop + 1 are sent, also when the
\* start instant lies before the current time and the timer is ready along
\* with the stop signal.
C24_AtMostOneSendAfterStop == retTrue >= 1 => Len(sent) <= sentAtStop + 1

====
